---- MODULE Spec2Model ----
(***************************************************************************)
(* Model of package null, type Bytes / NullBytes (src/bytes.go): a         *)
(* nullable []byte with JSON, text and database/sql adapters.              *)
(*                                                                         *)
(* A Go slice is a header (array, offset, length, capacity) over a backing *)
(* array that other slices may share; the nil slice has no array.  The     *)
(* model keeps the backing arrays in `heap`, so that the sharing the code  *)
(* sets up (NewBytes, SetValid and BytesFromPtr store the caller's slice;  *)
(* the decoders append into b.Bytes[0:0]) is visible.                      *)
(***************************************************************************)
EXTENDS Integers, Sequences, FiniteSets, TLC

\* Number of backing arrays that can be live at once.
MaxArr == 4
\* Longest buffer the caller allocates itself.
MaxLen == 1
\* Extra capacity append may give a newly allocated array.
MaxSlack == 1

Holders == {1, 2}
Byte == {1, 2}
\* []byte("null")
NullToken == <<110, 117, 108, 108>>

VARIABLES
    heap,   \* backing arrays: array id -> its elements (<<>>: not allocated)
    h,      \* the holders (values of type Bytes) the caller has
    buf,    \* the caller's own []byte variable
    last    \* the call whose results the caller still holds ("idle": none)

vars == <<heap, h, buf, last>>

----------------------------------------------------------------------------
(* Slices and backing arrays *)

NilSlice == [nil |-> TRUE, arr |-> 0, off |-> 0, len |-> 0, cap |-> 0]
\* []byte{}: not nil, no elements, no capacity
EmptySlice == [nil |-> FALSE, arr |-> 0, off |-> 0, len |-> 0, cap |-> 0]

Content(hp, s) == [k \in 1..s.len |-> hp[s.arr][s.off + k]]

\* s[lo:hi]
SubSlice(s, lo, hi) ==
    IF s.nil THEN s
    ELSE [nil |-> FALSE, arr |-> s.arr, off |-> s.off + lo, len |-> hi - lo,
          cap |-> s.cap - lo]

FreeIds(hp) == {a \in 1..MaxArr : hp[a] = <<>>}

Padded(data, c) == [k \in 1..c |-> IF k <= Len(data) THEN data[k] ELSE 0]

\* A new backing array of capacity c (c >= Len(data), c >= 1) holding data.
Alloc(hp, data, c) ==
    IF FreeIds(hp) = {}
    THEN [ok |-> FALSE, heap |-> hp, slice |-> NilSlice]
    ELSE LET a == CHOOSE x \in FreeIds(hp) : \A y \in FreeIds(hp) : x <= y
         IN  [ok |-> TRUE,
              heap |-> [hp EXCEPT ![a] = Padded(data, c)],
              slice |-> [nil |-> FALSE, arr |-> a, off |-> 0, len |-> Len(data),
                         cap |-> c]]

\* append(s, data...): in place when the capacity allows, else into a new
\* array of capacity c.  data was read before anything is written.
AppendBytes(hp, s, data, c) ==
    LET n == s.len + Len(data) IN
    IF Len(data) = 0 THEN [ok |-> TRUE, heap |-> hp, slice |-> s]
    ELSE IF n <= s.cap
    THEN [ok |-> TRUE,
          heap |-> [hp EXCEPT ![s.arr] =
                      [k \in 1..Len(@) |->
                          IF k > s.off + s.len /\ k <= s.off + n
                          THEN data[k - s.off - s.len] ELSE @[k]]],
          slice |-> [s EXCEPT !.len = n]]
    ELSE Alloc(hp, Content(hp, s) \o data, c)

\* The arrays the slices of the sequence roots refer to, each once, in the
\* order the roots first mention them.
RECURSIVE LiveArrays(_)
LiveArrays(roots) ==
    IF roots = <<>> THEN <<>>
    ELSE LET front == LiveArrays(SubSeq(roots, 1, Len(roots) - 1))
             a == roots[Len(roots)].arr
         IN  IF a = 0 \/ \E k \in 1..Len(front) : front[k] = a
             THEN front ELSE front \o <<a>>

\* An array has no identity but the slices that refer to it: live arrays are
\* renumbered by their place in live.
NewId(live, a) == IF a = 0 THEN 0 ELSE CHOOSE k \in 1..Len(live) : live[k] = a

Moved(live, s) == [s EXCEPT !.arr = NewId(live, s.arr)]

\* What the garbage collector leaves: the arrays some live slice refers to.
Collect(hp, live) ==
    [a \in 1..MaxArr |-> IF a <= Len(live) THEN hp[live[a]] ELSE <<>>]

----------------------------------------------------------------------------
(* The package's functions *)

NewBytes(b, valid) == [Bytes |-> b, Valid |-> valid]

BytesFrom(b) == NewBytes(b, b.len # 0)

\* p: [nilptr, slice], a *[]byte
BytesFromPtr(p) ==
    IF p.nilptr \/ p.slice.len = 0
    THEN NewBytes(NilSlice, FALSE)
    ELSE NewBytes(p.slice, TRUE)

\* A decoder that appends to the bytes it holds instead of replacing them.
UnmarshalJSONAppend(hp, b, data, c) ==
    IF data.nil \/ data.len = 0
    THEN [ok |-> TRUE, heap |-> hp, h |-> [Bytes |-> NilSlice, Valid |-> FALSE],
          err |-> "none"]
    ELSE LET a == AppendBytes(hp, b.Bytes, Content(hp, data), b.Bytes.len + c)
         IN  [ok |-> a.ok, heap |-> a.heap,
              h |-> [Bytes |-> a.slice, Valid |-> TRUE], err |-> "none"]

UnmarshalJSON(hp, b, data, c) ==
    IF data.nil \/ data.len = 0
    THEN [ok |-> TRUE, heap |-> hp, h |-> [Bytes |-> NilSlice, Valid |-> FALSE],
          err |-> "none"]
    ELSE LET a == AppendBytes(hp, SubSlice(b.Bytes, 0, 0), Content(hp, data), c)
         IN  [ok |-> a.ok, heap |-> a.heap,
              h |-> [Bytes |-> a.slice, Valid |-> TRUE], err |-> "none"]

\* A decoder that validates its input, as the comment above UnmarshalText says.
UnmarshalTextStrict(hp, b, text, c) ==
    IF text.nil \/ text.len = 0
    THEN [ok |-> TRUE, heap |-> hp, h |-> [b EXCEPT !.Valid = FALSE], err |-> "none"]
    ELSE [ok |-> TRUE, heap |-> hp, h |-> b, err |-> "ConversionError"]

\* A decoder that clears the bytes on empty input, as UnmarshalJSON does.
UnmarshalTextClearing(hp, b, text, c) == UnmarshalJSON(hp, b, text, c)

UnmarshalText(hp, b, text, c) ==
    IF text.nil \/ text.len = 0
    THEN [ok |-> TRUE, heap |-> hp, h |-> [b EXCEPT !.Valid = FALSE], err |-> "none"]
    ELSE LET a == AppendBytes(hp, SubSlice(b.Bytes, 0, 0), Content(hp, text), c)
         IN  [ok |-> a.ok, heap |-> a.heap,
              h |-> [Bytes |-> a.slice, Valid |-> TRUE], err |-> "none"]

MarshalJSON(hp, b) ==
    IF ~b.Valid
    THEN LET a == Alloc(hp, NullToken, Len(NullToken))
         IN  [ok |-> a.ok, heap |-> a.heap, ret |-> a.slice, err |-> "none"]
    ELSE [ok |-> TRUE, heap |-> hp, ret |-> b.Bytes, err |-> "none"]

\* An encoder that forgets the validity flag.
MarshalTextNoCheck(b) == [ret |-> b.Bytes, err |-> "none"]

\* An encoder that returns an empty text for a null holder.
MarshalTextEmpty(b) ==
    IF ~b.Valid
    THEN [ret |-> EmptySlice, err |-> "none"]
    ELSE [ret |-> b.Bytes, err |-> "none"]

MarshalText(b) ==
    IF ~b.Valid
    THEN [ret |-> NilSlice, err |-> "none"]
    ELSE [ret |-> b.Bytes, err |-> "none"]

SetValid(b, n) == [Bytes |-> n, Valid |-> TRUE]

Ptr(b) ==
    IF ~b.Valid
    THEN [nilptr |-> TRUE, slice |-> NilSlice]
    ELSE [nilptr |-> FALSE, slice |-> b.Bytes]

IsZero(b) == ~b.Valid

\* convert.ConvertAssign(&n.Bytes, value) for a non-nil value: a byte sequence
\* or a string is copied into dest; any other kind is rejected, and dest is
\* then either kept or cleared (keep).
ConvertAssign(hp, dest, value, keep) ==
    IF value.kind \in {"bytes", "string"}
    THEN IF Len(value.data) = 0
         THEN [ok |-> TRUE, heap |-> hp, dest |-> EmptySlice, err |-> "none"]
         ELSE LET a == Alloc(hp, value.data, Len(value.data))
              IN  [ok |-> a.ok, heap |-> a.heap, dest |-> a.slice, err |-> "none"]
    ELSE [ok |-> TRUE, heap |-> hp, dest |-> IF keep THEN dest ELSE NilSlice,
          err |-> "ConversionError"]

\* A Scan that marks the holder valid only once the conversion succeeded.
ScanValidAfter(hp, n, value, keep) ==
    IF value.kind = "nil"
    THEN [ok |-> TRUE, heap |-> hp, h |-> [Bytes |-> EmptySlice, Valid |-> FALSE],
          err |-> "none"]
    ELSE LET r == ConvertAssign(hp, n.Bytes, value, keep)
         IN  [ok |-> r.ok, heap |-> r.heap,
              h |-> [Bytes |-> r.dest, Valid |-> IF r.err = "none" THEN TRUE ELSE n.Valid],
              err |-> r.err]

\* A Scan that stores a nil slice for the absence marker.
ScanNilSlice(hp, n, value, keep) ==
    IF value.kind = "nil"
    THEN [ok |-> TRUE, heap |-> hp, h |-> [Bytes |-> NilSlice, Valid |-> FALSE],
          err |-> "none"]
    ELSE LET r == ConvertAssign(hp, n.Bytes, value, keep)
         IN  [ok |-> r.ok, heap |-> r.heap, h |-> [Bytes |-> r.dest, Valid |-> TRUE],
              err |-> r.err]

Scan(hp, n, value, keep) ==
    IF value.kind = "nil"
    THEN [ok |-> TRUE, heap |-> hp, h |-> [Bytes |-> EmptySlice, Valid |-> FALSE],
          err |-> "none"]
    ELSE LET r == ConvertAssign(hp, n.Bytes, value, keep)
         IN  [ok |-> r.ok, heap |-> r.heap, h |-> [Bytes |-> r.dest, Valid |-> TRUE],
              err |-> r.err]

\* driver.Value: the nil interface, or a []byte
Value(n) ==
    IF ~n.Valid
    THEN [ret |-> [kind |-> "nil", slice |-> NilSlice], err |-> "none"]
    ELSE [ret |-> [kind |-> "bytes", slice |-> n.Bytes], err |-> "none"]

----------------------------------------------------------------------------
(* The caller: what it passes in, and what it keeps of each call *)

\* The []byte arguments the caller passes: nil, []byte{}, or any buf[lo:hi].
ArgSlices ==
    {NilSlice, EmptySlice}
        \cup {SubSlice(buf, r[1], r[2]) :
                 r \in {q \in (0..buf.len) \X (0..buf.len) : q[1] <= q[2]}}

\* The values a database driver hands to Scan.
DriverValues ==
    {[kind |-> "nil", data |-> <<>>], [kind |-> "unsupported", data |-> <<>>]}
        \cup {[kind |-> k, data |-> d] : k \in {"bytes", "string"}, d \in {<<>>, <<1>>}}

\* Capacities append may give a new array holding n elements.
GrowCaps(n) == n..(n + MaxSlack)

NoRet == [kind |-> "none", slice |-> NilSlice]
NoArg == [kind |-> "none", nil |-> TRUE, data |-> <<>>]
\* last: op, the call; hid, its receiver (or the holder assigned); was, the
\* receiver's Valid before the call; arg, the argument and the bytes it held
\* when passed; err and ret, what the call returned; chain, the holder whose
\* MarshalJSON result was passed as the argument (0: none).
Idle == [op |-> "idle", hid |-> 1, was |-> FALSE, err |-> "none", ret |-> NoRet,
         arg |-> NoArg, chain |-> 0]
SliceArg(hp, s) == [kind |-> "bytes", nil |-> s.nil, data |-> Content(hp, s)]

\* The state after a call: the holders and the heap as the call left them,
\* the call recorded in last, unreferenced arrays collected.
Finish(op, i, hp, hs, b, err, ret, arg, chain) ==
    LET live == LiveArrays(<<hs[1].Bytes, hs[2].Bytes, b, ret.slice>>) IN
    /\ h' = [j \in Holders |-> [hs[j] EXCEPT !.Bytes = Moved(live, hs[j].Bytes)]]
    /\ buf' = Moved(live, b)
    /\ last' = [op |-> op, hid |-> i, was |-> (op # "idle" /\ h[i].Valid), err |-> err,
                ret |-> [ret EXCEPT !.slice = Moved(live, ret.slice)],
                arg |-> arg, chain |-> chain]
    /\ heap' = Collect(hp, live)

Init ==
    /\ heap = [a \in 1..MaxArr |-> <<>>]
    /\ h = [i \in Holders |-> NewBytes(NilSlice, FALSE)]
    /\ buf = NilSlice
    /\ last = Idle

\* buf = []byte{...}
CallerMake ==
    /\ last.op = "idle"
    /\ \E n \in 1..MaxLen : \E d \in [1..n -> Byte] :
        LET a == Alloc(heap, d, n) IN
        /\ a.ok
        /\ Finish("CallerMake", 1, a.heap, h, a.slice, "none", NoRet, NoArg, 0)

\* buf[k] = v
CallerWrite ==
    \E k \in 1..buf.len : \E v \in Byte :
        /\ heap[buf.arr][buf.off + k] # v
        /\ Finish("CallerWrite", 1,
                  [heap EXCEPT ![buf.arr][buf.off + k] = v], h, buf,
                  "none", NoRet, NoArg, 0)

\* The caller lets go of what the last call returned.
Resume ==
    /\ last.op # "idle"
    /\ Finish("idle", 1, heap, h, buf, "none", NoRet, NoArg, 0)

\* h[i] = NewBytes(b, valid)
DoNewBytes(i) ==
    /\ last.op = "idle"
    /\ \E b \in ArgSlices : \E valid \in BOOLEAN :
        Finish("NewBytes", i, heap, [h EXCEPT ![i] = NewBytes(b, valid)], buf,
               "none", NoRet, SliceArg(heap, b), 0)

\* h[i] = BytesFrom(b)
DoBytesFrom(i) ==
    /\ last.op = "idle"
    /\ \E b \in ArgSlices :
        Finish("BytesFrom", i, heap, [h EXCEPT ![i] = BytesFrom(b)], buf,
               "none", NoRet, SliceArg(heap, b), 0)

\* h[i] = BytesFromPtr(nil), or v := buf[lo:hi]; h[i] = BytesFromPtr(&v)
DoBytesFromPtr(i) ==
    /\ last.op = "idle"
    /\ \E p \in {[nilptr |-> TRUE, slice |-> NilSlice]}
                  \cup {[nilptr |-> FALSE, slice |-> s] : s \in ArgSlices} :
        Finish("BytesFromPtr", i, heap, [h EXCEPT ![i] = BytesFromPtr(p)], buf,
               "none", NoRet,
               [kind |-> IF p.nilptr THEN "nilptr" ELSE "ptr", nil |-> p.slice.nil,
                data |-> Content(heap, p.slice)],
               0)

\* h[j] = h[i]: a Bytes is a struct and is copied by value
DoCopy(i) ==
    /\ last.op = "idle"
    /\ \E j \in Holders \ {i} :
        /\ h[j] # h[i]
        /\ Finish("Copy", i, heap, [h EXCEPT ![j] = h[i]], buf,
                  "none", NoRet, NoArg, 0)

\* The []byte a decoder is given: an argument of the caller's, or what the
\* MarshalJSON call just before returned.
DecodeInputs ==
    IF last.op = "idle" THEN {[slice |-> s, chain |-> 0] : s \in ArgSlices}
    ELSE IF last.op = "MarshalJSON" THEN {[slice |-> last.ret.slice, chain |-> last.hid]}
    ELSE {}

\* err := h[i].UnmarshalJSON(data)
DoUnmarshalJSON(i) ==
    \E in \in DecodeInputs : \E c \in GrowCaps(in.slice.len) :
        LET r == UnmarshalJSON(heap, h[i], in.slice, c) IN
        /\ r.ok
        /\ Finish("UnmarshalJSON", i, r.heap, [h EXCEPT ![i] = r.h], buf,
                  r.err, NoRet, SliceArg(heap, in.slice), in.chain)

\* err := h[i].UnmarshalText(text)
DoUnmarshalText(i) ==
    \E in \in DecodeInputs : \E c \in GrowCaps(in.slice.len) :
        LET r == UnmarshalText(heap, h[i], in.slice, c) IN
        /\ r.ok
        /\ Finish("UnmarshalText", i, r.heap, [h EXCEPT ![i] = r.h], buf,
                  r.err, NoRet, SliceArg(heap, in.slice), in.chain)

\* data, err := h[i].MarshalJSON()
DoMarshalJSON(i) ==
    LET r == MarshalJSON(heap, h[i]) IN
    /\ last.op = "idle"
    /\ r.ok
    /\ Finish("MarshalJSON", i, r.heap, h, buf, r.err,
              [kind |-> "bytes", slice |-> r.ret], NoArg, 0)

\* text, err := h[i].MarshalText()
DoMarshalText(i) ==
    LET r == MarshalText(h[i]) IN
    /\ last.op = "idle"
    /\ Finish("MarshalText", i, heap, h, buf, r.err,
              [kind |-> "bytes", slice |-> r.ret], NoArg, 0)

\* h[i].SetValid(n)
DoSetValid(i) ==
    /\ last.op = "idle"
    /\ \E n \in ArgSlices :
        Finish("SetValid", i, heap, [h EXCEPT ![i] = SetValid(h[i], n)], buf,
               "none", NoRet, SliceArg(heap, n), 0)

\* p := h[i].Ptr()
DoPtr(i) ==
    LET p == Ptr(h[i]) IN
    /\ last.op = "idle"
    /\ Finish("Ptr", i, heap, h, buf, "none",
              [kind |-> IF p.nilptr THEN "nilptr" ELSE "ptr", slice |-> p.slice],
              NoArg, 0)

\* z := h[i].IsZero()
DoIsZero(i) ==
    /\ last.op = "idle"
    /\ Finish("IsZero", i, heap, h, buf, "none",
              [kind |-> IF IsZero(h[i]) THEN "true" ELSE "false", slice |-> NilSlice],
              NoArg, 0)

\* err := h[i].Scan(value)
DoScan(i) ==
    /\ last.op = "idle"
    /\ \E value \in DriverValues :
       \E keep \in IF value.kind = "unsupported" THEN BOOLEAN ELSE {TRUE} :
        LET r == Scan(heap, h[i], value, keep) IN
        /\ r.ok
        /\ Finish("Scan", i, r.heap, [h EXCEPT ![i] = r.h], buf, r.err, NoRet,
                  [kind |-> value.kind, nil |-> value.kind = "nil", data |-> value.data],
                  0)

\* v, err := h[i].Value()
DoValue(i) ==
    LET r == Value(h[i]) IN
    /\ last.op = "idle"
    /\ Finish("Value", i, heap, h, buf, r.err, r.ret, NoArg, 0)

Next ==
    \/ Resume
    \/ CallerMake
    \/ CallerWrite
    \/ \E i \in Holders : DoNewBytes(i)
    \/ \E i \in Holders : DoBytesFrom(i)
    \/ \E i \in Holders : DoBytesFromPtr(i)
    \/ \E i \in Holders : DoCopy(i)
    \/ \E i \in Holders : DoUnmarshalJSON(i)
    \/ \E i \in Holders : DoUnmarshalText(i)
    \/ \E i \in Holders : DoMarshalJSON(i)
    \/ \E i \in Holders : DoMarshalText(i)
    \/ \E i \in Holders : DoSetValid(i)
    \/ \E i \in Holders : DoPtr(i)
    \/ \E i \in Holders : DoIsZero(i)
    \/ \E i \in Holders : DoScan(i)
    \/ \E i \in Holders : DoValue(i)

Spec == Init /\ [][Next]_vars

----------------------------------------------------------------------------
(* Properties *)

Decoders == {"UnmarshalJSON", "UnmarshalText"}

\* The holder a step leaves alone when it acts on holder i.
Other(i) == CHOOSE j \in Holders : j # i

\* What a caller can tell of a MarshalText result: whether it is nil, and its bytes.
TextResult(i) ==
    LET r == MarshalText(h[i]).ret IN [nil |-> r.nil, data |-> Content(heap, r)]

\* C1 as stated: for every valid holder, whatever its Bytes, UnmarshalJSON of
\* the bytes its MarshalJSON returned yields a valid holder with the same bytes.
C1_RoundTripAnyBytes ==
    [][(/\ last.op = "MarshalJSON"
        /\ h[last.hid].Valid
        /\ last'.op = "UnmarshalJSON"
        /\ last'.chain = last.hid)
          => /\ last'.err = "none"
             /\ h'[last'.hid].Valid
             /\ Content(heap', h'[last'.hid].Bytes) = Content(heap, h[last.hid].Bytes)]_vars

\* C1 amended: for every valid holder with non-empty Bytes, UnmarshalJSON (on
\* any holder) of the bytes its MarshalJSON returned yields a valid holder
\* whose bytes are those the encoded holder had when it was encoded.
C1_RoundTripNonEmpty ==
    [][(/\ last.op = "MarshalJSON"
        /\ h[last.hid].Valid
        /\ h[last.hid].Bytes.len > 0
        /\ last'.op = "UnmarshalJSON"
        /\ last'.chain = last.hid)
          => /\ last'.err = "none"
             /\ h'[last'.hid].Valid
             /\ Content(heap', h'[last'.hid].Bytes) = Content(heap, h[last.hid].Bytes)]_vars

\* A valid holder's non-empty encoding was decoded into the other holder, which
\* held bytes of its own before.
C1_Witness ==
    /\ last.op = "UnmarshalJSON"
    /\ last.chain = Other(last.hid)
    /\ last.arg.data # <<>>
    /\ last.arg.data # NullToken
    /\ h[last.chain].Valid
    /\ h[last.hid].Valid
    /\ h[last.hid].Bytes.arr # h[last.chain].Bytes.arr
    /\ Content(heap, h[last.hid].Bytes) = last.arg.data

\* C2: MarshalJSON of a null holder returns the token "null", and UnmarshalJSON
\* of that token leaves the decoding holder null.
C2_NullRoundTrip ==
    [][(/\ last.op = "MarshalJSON"
        /\ ~h[last.hid].Valid
        /\ last'.op = "UnmarshalJSON"
        /\ last'.chain = last.hid)
          => /\ Content(heap, last.ret.slice) = NullToken
             /\ last'.arg.data = NullToken
             /\ ~h'[last'.hid].Valid]_vars

\* C3: no output operation called on a null holder exposes the bytes the
\* holder stores: MarshalJSON returns "null" in storage of its own, MarshalText
\* returns nil, Value the nil driver value, Ptr the nil pointer.
C3_NullHidesBytes ==
    (last.op \in {"MarshalJSON", "MarshalText", "Value", "Ptr"} /\ ~h[last.hid].Valid)
        => /\ last.err = "none"
           /\ last.op = "MarshalJSON" =>
                 /\ Content(heap, last.ret.slice) = NullToken
                 /\ last.ret.slice.arr # h[last.hid].Bytes.arr
           /\ last.op = "MarshalText" => last.ret.slice = NilSlice
           /\ last.op = "Value" => last.ret.kind = "nil" /\ last.ret.slice = NilSlice
           /\ last.op = "Ptr" => last.ret.kind = "nilptr" /\ last.ret.slice = NilSlice

\* MarshalText was called on a null holder that still stores bytes.
C3_Witness ==
    /\ last.op = "MarshalText"
    /\ ~h[last.hid].Valid
    /\ h[last.hid].Bytes.len > 0
    /\ last.ret.slice = NilSlice

\* C4: a Scan of a non-nil value the conversion rejects returns the conversion
\* error and leaves the holder valid, whatever its flag was.
C4_ScanFailureValid ==
    (last.op = "Scan" /\ last.arg.kind # "nil")
        => /\ h[last.hid].Valid
           /\ last.arg.kind = "unsupported" => last.err = "ConversionError"
           /\ last.err # "none" => last.arg.kind = "unsupported"

\* A null holder was handed a value the conversion rejects.
C4_Witness ==
    /\ last.op = "Scan"
    /\ last.arg.kind = "unsupported"
    /\ ~last.was
    /\ last.err = "ConversionError"
    /\ h[last.hid].Valid

\* C5: a holder BytesFromPtr built from a present, non-empty sequence holds a
\* copy: a write to the caller's sequence does not change the holder's bytes.
C5_FromPtrCopies ==
    [][(last.op = "BytesFromPtr" /\ h[last.hid].Valid /\ last'.op = "CallerWrite")
          => Content(heap', h'[last.hid].Bytes) = Content(heap, h[last.hid].Bytes)]_vars

\* C6 as stated: the MarshalText result of a null holder differs from the
\* result of every valid holder.
C6_NullTextDiffersFromAnyValid ==
    \A i, j \in Holders :
        (~h[i].Valid /\ h[j].Valid) => TextResult(i) # TextResult(j)

\* C6 amended: the MarshalText result of a null holder (nil) differs from the
\* result of every valid holder whose Bytes are not nil, empty Bytes included.
C6_NullTextDiffersFromNonNil ==
    \A i, j \in Holders :
        (~h[i].Valid /\ h[j].Valid /\ ~h[j].Bytes.nil)
            => /\ TextResult(i) = [nil |-> TRUE, data |-> <<>>]
               /\ TextResult(i) # TextResult(j)

\* MarshalText was called on a null holder that stores bytes while the other
\* holder is valid with empty, non-nil Bytes.
C6_Witness ==
    /\ last.op = "MarshalText"
    /\ ~h[last.hid].Valid
    /\ h[last.hid].Bytes.len > 0
    /\ h[Other(last.hid)].Valid
    /\ ~h[Other(last.hid)].Bytes.nil
    /\ h[Other(last.hid)].Bytes.len = 0

\* C7: UnmarshalText of empty input only clears Valid and leaves Bytes as they
\* were; UnmarshalJSON of empty input clears Valid and sets Bytes to nil; with
\* non-empty input both set Valid and make Bytes equal to the input.
C7_DecodeAsymmetry ==
    [][last'.op \in Decoders
          => LET i == last'.hid IN
             /\ last'.err = "none"
             /\ (last'.op = "UnmarshalText" /\ last'.arg.data = <<>>)
                   => /\ ~h'[i].Valid
                      /\ h'[i].Bytes.nil = h[i].Bytes.nil
                      /\ h'[i].Bytes.len = h[i].Bytes.len
                      /\ Content(heap', h'[i].Bytes) = Content(heap, h[i].Bytes)
             /\ (last'.op = "UnmarshalJSON" /\ last'.arg.data = <<>>)
                   => /\ ~h'[i].Valid
                      /\ h'[i].Bytes = NilSlice
             /\ last'.arg.data # <<>>
                   => /\ h'[i].Valid
                      /\ Content(heap', h'[i].Bytes) = last'.arg.data]_vars

\* UnmarshalText of empty input made a valid holder null, and its bytes remain.
C7_Witness ==
    /\ last.op = "UnmarshalText"
    /\ last.arg.data = <<>>
    /\ last.was
    /\ ~h[last.hid].Valid
    /\ h[last.hid].Bytes.len > 0

\* C8: Scan(nil) returns no error and leaves Valid false and Bytes empty but
\* not nil; Value then returns the nil driver value.
C8_ScanNil ==
    (last.op = "Scan" /\ last.arg.kind = "nil")
        => /\ last.err = "none"
           /\ ~h[last.hid].Valid
           /\ h[last.hid].Bytes = EmptySlice
           /\ ~h[last.hid].Bytes.nil
           /\ Value(h[last.hid]) = [ret |-> [kind |-> "nil", slice |-> NilSlice],
                                   err |-> "none"]

\* Scan(nil) was called on a valid holder.
C8_Witness ==
    /\ last.op = "Scan"
    /\ last.arg.kind = "nil"
    /\ last.was
    /\ ~h[last.hid].Valid

C10_DecodeIsolated ==
    [][(/\ h[1] = h[2]
        /\ h[1].Valid
        /\ last.op = "idle"
        /\ last'.op \in Decoders
        /\ last'.arg.data # <<>>)
          => /\ Content(heap', h'[Other(last'.hid)].Bytes)
                   = Content(heap, h[Other(last'.hid)].Bytes)
             /\ Content(heap', buf') = Content(heap, buf)]_vars

====
